---- MODULE Spec2Model ----
(***************************************************************************)
(* Model of pdf_to_json.py: the first pass of parse_pdf over the pages     *)
(* (text, extract_images_from_page, cleanup_tiny_images), its line scan    *)
(* (section / question / option / answer-key state machine), the grouping  *)
(* and sorting of the curated images, assign_images_to_questions and       *)
(* convert_to_dict; and of validate_images.py, which compares the written  *)
(* document with the images directory.                                     *)
(*                                                                         *)
(* Text is modelled character by character: a string is a sequence of      *)
(* one-character tokens.  The module is ASCII, so an accented Czech letter *)
(* is written as one token of two ASCII characters ("A'" is A-acute, "c^"  *)
(* is c-caron, "u*" is u-ring); it is still ONE element of the sequence.   *)
(***************************************************************************)
EXTENDS Integers, Sequences, FiniteSets, TLC

(***************************************************************************)
(* Characters and the string methods of Python the code uses.              *)
(***************************************************************************)
UpperSeq ==
    <<"A", "B", "C", "D", "E", "F", "G", "H", "I", "J", "K", "L", "M",
      "N", "O", "P", "Q", "R", "S", "T", "U", "V", "W", "X", "Y", "Z",
      "A'", "C^", "D^", "E'", "E^", "I'", "N^", "O'", "R^", "S^", "T^",
      "U'", "U*", "Y'", "Z^">>

LowerSeq ==
    <<"a", "b", "c", "d", "e", "f", "g", "h", "i", "j", "k", "l", "m",
      "n", "o", "p", "q", "r", "s", "t", "u", "v", "w", "x", "y", "z",
      "a'", "c^", "d^", "e'", "e^", "i'", "n^", "o'", "r^", "s^", "t^",
      "u'", "u*", "y'", "z^">>

Range(s) == {s[k] : k \in DOMAIN s}

UpperChars == Range(UpperSeq)

LowerChars == Range(LowerSeq)

DigitSeq == <<"0", "1", "2", "3", "4", "5", "6", "7", "8", "9">>

Digits == Range(DigitSeq)

Whitespace == {" ", "\t"}

OptionLetters == {"A", "B", "C", "D"}

\* str.isupper() / str.isalpha() of one character
CharIsUpper(c) == c \in UpperChars

CharIsAlpha(c) == c \in UpperChars \cup LowerChars

\* int() of one decimal digit
DigitVal(c) == (CHOOSE k \in DOMAIN DigitSeq : DigitSeq[k] = c) - 1

\* int() of a run of decimal digits
RECURSIVE ToInt(_)
ToInt(s) ==
    IF s = <<>> THEN 0
    ELSE 10 * ToInt(SubSeq(s, 1, Len(s) - 1)) + DigitVal(s[Len(s)])

\* number of leading characters of s that belong to the class cls
RECURSIVE PrefixLen(_, _)
PrefixLen(s, cls) ==
    IF s # <<>> /\ s[1] \in cls THEN 1 + PrefixLen(Tail(s), cls) ELSE 0

Drop(s, n) == SubSeq(s, n + 1, Len(s))

RECURSIVE RStrip(_)
RStrip(s) ==
    IF s # <<>> /\ s[Len(s)] \in Whitespace
    THEN RStrip(SubSeq(s, 1, Len(s) - 1))
    ELSE s

\* str.strip()
Strip(s) == RStrip(Drop(s, PrefixLen(s, Whitespace)))

\* str.startswith(p)
StartsWith(s, p) == Len(s) >= Len(p) /\ SubSeq(s, 1, Len(p)) = p

\* sub in s
Contains(s, sub) ==
    \E k \in 0..(Len(s) - Len(sub)) : SubSeq(s, k + 1, k + Len(sub)) = sub

\* str.isupper(): at least one cased character and no lowercase one
IsUpper(s) ==
    /\ \E k \in DOMAIN s : s[k] \in UpperChars
    /\ \A k \in DOMAIN s : s[k] \notin LowerChars

\* str.lower()
LowerChar(c) ==
    IF c \in UpperChars
    THEN LowerSeq[CHOOSE k \in DOMAIN UpperSeq : UpperSeq[k] = c]
    ELSE c

Lower(s) == [k \in DOMAIN s |-> LowerChar(s[k])]

\* re.sub(r'\s+', ' ', text): every run of whitespace becomes one space
RECURSIVE CollapseWs(_)
CollapseWs(s) ==
    IF s = <<>> THEN <<>>
    ELSE IF s[1] \in Whitespace
         THEN <<" ">> \o CollapseWs(Drop(s, PrefixLen(s, Whitespace)))
         ELSE <<s[1]>> \o CollapseWs(Tail(s))

clean_text(text) == Strip(CollapseWs(text))

(***************************************************************************)
(* The fixed strings of the source.                                        *)
(***************************************************************************)
AnswersMarkerColon ==
    <<"S", "P", "R", "A'", "V", "N", "E'", " ", "R^", "E", "S^", "E", "N", "I'", ":">>

AnswersMarker ==
    <<"S", "P", "R", "A'", "V", "N", "E'", " ", "R^", "E", "S^", "E", "N", "I'">>

HeaderLines ==
    { <<"T", "E", "S", "T", "O", "V", "E'", " ", "U'", "L", "O", "H", "Y">>,
      <<"O", "B", "C^", "A", "N", "S", "K", "Y'", " ", "Z", "A'", "K", "L", "A", "D">> }

DatePrefixShort ==
    <<"D", "a", "t", "u", "m", " ", "a", "k", "t", "u", "a", "l", "i", "z", "a", "c", "e">>

DatePrefix ==
    <<"D", "a", "t", "u", "m", " ", "a", "k", "t", "u", "a", "l", "i", "z", "a", "c", "e",
      " ", "t", "e", "s", "t", "o", "v", "e'", " ", "u'", "l", "o", "h", "y", ":">>

ContinuationName ==
    <<"(", "P", "o", "k", "r", "a", "c^", "o", "v", "a'", "n", "i'", ")">>

(***************************************************************************)
(* The regular expressions of the line scan, as matchers on a stripped     *)
(* line.                                                                   *)
(***************************************************************************)
\* re.match(r'^\d+$', line)
IsPageNumber(line) == line # <<>> /\ \A k \in DOMAIN line : line[k] \in Digits

\* the class [A-Z...\s,0-9.] of the section-title pattern
SectionTitleChars == UpperChars \cup Whitespace \cup Digits \cup {",", "."}

\* ^(\d+)\.\s+ : the text after "<digits>." and at least minWs whitespace;
\* matched = FALSE when the line does not start that way
NumberedPrefix(line, minWs) ==
    LET n    == PrefixLen(line, Digits)
        rest == Drop(line, n + 1)
        w    == PrefixLen(rest, Whitespace)
    IN  IF n >= 1 /\ Len(line) > n /\ line[n + 1] = "." /\ w >= minWs
        THEN [matched |-> TRUE, num |-> ToInt(SubSeq(line, 1, n)), rest |-> Drop(rest, w)]
        ELSE [matched |-> FALSE, num |-> 0, rest |-> <<>>]

\* re.match(r'^(\d+)\.\s+([A-Z...][A-Z...\s,0-9.]+)$', line)
SectionMatch(line) ==
    LET m == NumberedPrefix(line, 1)
    IN  IF /\ m.matched
           /\ Len(m.rest) >= 2
           /\ m.rest[1] \in UpperChars
           /\ \A k \in 2..Len(m.rest) : m.rest[k] \in SectionTitleChars
        THEN m
        ELSE [matched |-> FALSE, num |-> 0, rest |-> <<>>]

\* all(c.isupper() or not c.isalpha() for c in section_text)
IsSectionText(text) ==
    \A k \in DOMAIN text : CharIsUpper(text[k]) \/ ~CharIsAlpha(text[k])

\* re.match(r'^(\d+)\.\s*(.*)', line)
QuestionMatch(line) == NumberedPrefix(line, 0)

\* re.match(r'^([A-D])\)\s*(.*)', line)
OptionMatch(line) ==
    IF Len(line) >= 2 /\ line[1] \in OptionLetters /\ line[2] = ")"
    THEN [matched |-> TRUE, label |-> line[1],
          rest |-> Drop(line, 2 + PrefixLen(Drop(line, 2), Whitespace))]
    ELSE [matched |-> FALSE, label |-> "", rest |-> <<>>]

\* re.match(r'Datum aktualizace testove ulohy:\s*(.+)', line): (.+) needs one
\* character after the prefix; group(1) starts after the whitespace
DateMatch(line) ==
    IF StartsWith(line, DatePrefix) /\ Len(line) > Len(DatePrefix)
    THEN [matched |-> TRUE,
          rest |-> LET r == Drop(line, Len(DatePrefix))
                   IN  IF PrefixLen(r, Whitespace) < Len(r)
                       THEN Drop(r, PrefixLen(r, Whitespace))
                       ELSE SubSeq(r, Len(r), Len(r))]
    ELSE [matched |-> FALSE, rest |-> <<>>]

\* "SPRAVNE RESENI:" in line or "SPRAVNE RESENI" in line
IsAnswersLine(line) == Contains(line, AnswersMarkerColon) \/ Contains(line, AnswersMarker)

(***************************************************************************)
(* parse_answers_line: re.findall(r'(\d+)([A-D])', line), left to right,   *)
(* non-overlapping; a later token for the same id replaces an earlier one. *)
(* A dict is a function from its keys.                                     *)
(***************************************************************************)
EmptyDict == [k \in {} |-> ""]

RECURSIVE ScanAnswers(_, _)
ScanAnswers(s, answers) ==
    IF s = <<>> THEN answers
    ELSE IF s[1] \in Digits
         THEN LET n == PrefixLen(s, Digits)
              IN  IF Len(s) > n /\ s[n + 1] \in OptionLetters
                  THEN ScanAnswers(Drop(s, n + 1),
                                   (ToInt(SubSeq(s, 1, n)) :> s[n + 1]) @@ answers)
                  ELSE ScanAnswers(Drop(s, n), answers)
         ELSE ScanAnswers(Tail(s), answers)

parse_answers_line(line) == ScanAnswers(line, EmptyDict)

(***************************************************************************)
(* The data classes.  Optional[T] is a sequence of length 0 (None) or 1.   *)
(***************************************************************************)
None == <<>>

Some(x) == <<x>>

Option(label, text) == [label |-> label, text |-> text, image |-> None]

Question(id, text, page) ==
    [id |-> id, text |-> text, options |-> <<>>, correct |-> "",
     image |-> None, date |-> None, page |-> page]

Section(id, name) == [id |-> id, name |-> name, questions |-> <<>>]

QuizData(source_file) == [source_file |-> source_file, sections |-> <<>>]

\* line 42: page: int = 0
DefaultPage == 0

(***************************************************************************)
(* State.  The program variables keep the names of parse_pdf's locals.     *)
(* history is a history variable, read by no action: for the section being *)
(* built (cur) and for every section of quiz_data (doc, in step with       *)
(* quiz_data.sections) it records opened_at, the index of the header line  *)
(* that opened the section (-1 for the implicit section), and expect, in   *)
(* step with the section's questions: the letter the answer-key lines met  *)
(* so far in the section gave for the question at the time they were met   *)
(* ("" when none did); started, the index of the line at which each of the  *)
(* section's questions was accepted, and frozen, the options and date each *)
(* of them had when it was appended to the section.  open is the index of  *)
(* the line at which the latest question was accepted (-1 before the       *)
(* first): it names the object current_question refers to.                 *)
(***************************************************************************)
VARIABLES
    lines_with_pages,   \* [(line, page_num), ...]
    i,                  \* cursor of the line scan, 0-based
    current_section,    \* Optional[Section]
    current_question,   \* Optional[Question]
    current_answers,    \* dict[int, str]
    quiz_data,          \* QuizData
    all_images,         \* descriptors of the extracted images
    images_by_page,     \* {page: [descriptor, ...]}
    pc,                 \* "extract", "raised", "scan", "group", "assign", "done",
                        \* "written", "validated"
    history,
    pdf,                \* the pages of the source document
    page_content,       \* [{text, images}, ...] of the first pass
    disk,               \* the files of the images directory: name -> size
    doc_open,           \* the handle of fitz.open is open
    json_out,           \* the mapping written to the JSON file
    outcome             \* what the validator reported and its exit code

vars == <<lines_with_pages, i, current_section, current_question, current_answers,
          quiz_data, all_images, images_by_page, pc, history,
          pdf, page_content, disk, doc_open, json_out, outcome>>

fileVars == <<pdf, page_content, disk, doc_open, json_out, outcome>>

imageVars == <<all_images, images_by_page, fileVars>>

LineAt(k) == Strip(lines_with_pages[k + 1][1])

PageAt(k) == lines_with_pages[k + 1][2]

NumLines == Len(lines_with_pages)

(***************************************************************************)
(* Classification of the line at the cursor, in the order of the loop      *)
(* body.                                                                   *)
(***************************************************************************)
\* not line.isupper() and (q_num <= 10 or '?' in line)
IsQuestionHeader(line, q_num) ==
    ~IsUpper(line) /\ (q_num <= 10 \/ Contains(line, <<"?">>))

\* A line that matches question_match but fails IsQuestionHeader falls
\* through to the option and date checks; both need a first character that
\* is a letter, so neither can match it and it ends at the final i += 1.
Kind(line, has_question) ==
    IF line = <<>> \/ IsPageNumber(line) THEN "empty"
    ELSE IF line \in HeaderLines THEN "boilerplate"
    ELSE IF SectionMatch(line).matched /\ IsSectionText(SectionMatch(line).rest)
         THEN "section"
    ELSE IF IsAnswersLine(line) THEN "answers"
    ELSE IF QuestionMatch(line).matched
         THEN IF IsQuestionHeader(line, QuestionMatch(line).num)
              THEN "question" ELSE "rejected"
    ELSE IF OptionMatch(line).matched /\ has_question THEN "option"
    ELSE IF DateMatch(line).matched /\ has_question THEN "date"
    ELSE "other"

AtLine(kind) ==
    /\ pc = "scan"
    /\ i < NumLines
    /\ Kind(LineAt(i), current_question # None) = kind

(***************************************************************************)
(* The commit conditions.  An instance of a data class is always truthy,   *)
(* so "current_section and ..." tests "is not None"; a list is truthy when *)
(* it is not empty.                                                        *)
(***************************************************************************)
\* line 189: current_section and current_question and current_question.options
CommitAtSection(sec, q) == sec # None /\ q # None /\ q[1].options # <<>>

\* line 210
CommitAtAnswers(sec, q) == sec # None /\ q # None /\ q[1].options # <<>>

\* faulty variant of line 228: the option list is not looked at
CommitAtQuestion_AnyQuestion(q) == q # None

\* line 228: current_question and current_question.options
CommitAtQuestion(q) == q # None /\ q[1].options # <<>>

\* line 281
CommitAtEnd(q) == q # None /\ q[1].options # <<>>

\* the question is put in front of the others
WithQuestion_Prepended(sec, q) == [sec EXCEPT !.questions = <<q>> \o @]

\* current_section.questions.append(current_question)
WithQuestion(sec, q) == [sec EXCEPT !.questions = Append(@, q)]

\* for q in questions: if q.id in current_answers: q.correct = current_answers[q.id]
ApplyAnswers(questions, answers) ==
    [k \in DOMAIN questions |->
        IF questions[k].id \in DOMAIN answers
        THEN [questions[k] EXCEPT !.correct = answers[questions[k].id]]
        ELSE questions[k]]

\* history: the record of a section opened by the line at index at
HistSection(at) == [opened_at |-> at, expect |-> <<>>, started |-> <<>>, frozen |-> <<>>]

\* history: before the first line
HistInit == [cur |-> HistSection(-1), doc |-> <<>>, open |-> -1]

\* history: current_question was appended to the section being built
HistCommitted(h) ==
    [h EXCEPT !.cur.expect  = Append(@, ""),
              !.cur.started = Append(@, h.open),
              !.cur.frozen  = Append(@, [options |-> current_question[1].options,
                                         date    |-> current_question[1].date])]

\* the reference left in current_question once the question it held has
\* been appended to its section at an answer-key line (line 212)
AfterCommit_Kept(question) == question

AfterCommit(question) == None

(***************************************************************************)
(* The branches of the loop body.                                          *)
(***************************************************************************)
\* lines 172-175
SkipEmptyLine ==
    /\ AtLine("empty")
    /\ i' = i + 1
    /\ UNCHANGED <<lines_with_pages, current_section, current_question,
                   current_answers, quiz_data, imageVars, pc, history>>

\* lines 177-180
SkipHeaderLine ==
    /\ AtLine("boilerplate")
    /\ i' = i + 1
    /\ UNCHANGED <<lines_with_pages, current_section, current_question,
                   current_answers, quiz_data, imageVars, pc, history>>

\* faulty variant of line 204: the map survives the header
AnswersAtSection_Kept(answers) == answers

\* the value current_answers takes at a section header (line 204)
AnswersAtSection(answers) == EmptyDict

\* lines 182-206
SectionHeader ==
    /\ AtLine("section")
    /\ LET m      == SectionMatch(LineAt(i))
           commit == CommitAtSection(current_section, current_question)
           sec    == IF commit
                     THEN Some(WithQuestion(current_section[1], current_question[1]))
                     ELSE current_section
           h1     == IF commit THEN HistCommitted(history) ELSE history
           save   == sec # None /\ sec[1].questions # <<>>
       IN  /\ quiz_data' =
                 IF save
                 THEN [quiz_data EXCEPT !.sections =
                         Append(@, [sec[1] EXCEPT !.questions =
                                       ApplyAnswers(@, current_answers)])]
                 ELSE quiz_data
           /\ current_section' = Some(Section(m.num, Strip(m.rest)))
           /\ history' = [cur  |-> HistSection(i),
                          doc  |-> IF save THEN Append(h1.doc, h1.cur) ELSE h1.doc,
                          open |-> h1.open]
    /\ current_question' = None
    /\ current_answers' = AnswersAtSection(current_answers)
    /\ i' = i + 1
    /\ UNCHANGED <<lines_with_pages, imageVars, pc>>

\* the value current_answers takes at an answer-key line (line 215)
AnswersAtKeyLine(answers, line) == parse_answers_line(line)

\* history: the letters a key line gives to the questions collected so far
HistKeyLine(h, questions, parsed) ==
    [h EXCEPT !.cur.expect =
        [k \in DOMAIN questions |->
            IF questions[k].id \in DOMAIN parsed
            THEN parsed[questions[k].id]
            ELSE @[k]]]

\* lines 208-217
AnswersLine ==
    /\ AtLine("answers")
    /\ LET commit == CommitAtAnswers(current_section, current_question)
           sec    == IF commit
                     THEN Some(WithQuestion(current_section[1], current_question[1]))
                     ELSE current_section
           h1     == IF commit THEN HistCommitted(history) ELSE history
       IN  /\ current_section' = sec
           /\ current_question' =
                 IF commit THEN AfterCommit(current_question) ELSE current_question
           /\ history' = IF sec = None THEN h1
                         ELSE HistKeyLine(h1, sec[1].questions,
                                          parse_answers_line(LineAt(i)))
    /\ current_answers' = AnswersAtKeyLine(current_answers, LineAt(i))
    /\ i' = i + 1
    /\ UNCHANGED <<lines_with_pages, quiz_data, imageVars, pc>>

\* lines 235-239: the line ends the continuation of a question text
QuestionTextStops(next_line) ==
    \/ Len(next_line) >= 2 /\ next_line[1] \in OptionLetters /\ next_line[2] = ")"
    \/ StartsWith(next_line, DatePrefixShort)
    \/ NumberedPrefix(next_line, 1).matched
    \/ Contains(next_line, AnswersMarker)
    \/ next_line = <<>>

\* lines 257-261: the line ends the continuation of an option text
OptionTextStops(next_line) ==
    \/ Len(next_line) >= 2 /\ next_line[1] \in OptionLetters /\ next_line[2] = ")"
    \/ StartsWith(next_line, DatePrefixShort)
    \/ NumberedPrefix(next_line, 1).matched
    \/ Contains(next_line, AnswersMarker)
    \/ next_line = <<>>

\* lines 232-242 with the inner loop ending on the line of the question
CollectQuestionText_AtCursor(j, q_text) == [j |-> j - 1, text |-> q_text]

\* lines 232-242: [j, text] after the inner loop started at j
RECURSIVE CollectQuestionText(_, _)
CollectQuestionText(j, q_text) ==
    IF j < NumLines /\ ~QuestionTextStops(LineAt(j))
    THEN CollectQuestionText(j + 1,
            IF q_text # <<>> THEN q_text \o <<" ">> \o LineAt(j) ELSE LineAt(j))
    ELSE [j |-> j, text |-> q_text]

\* lines 254-264
RECURSIVE CollectOptionText(_, _)
CollectOptionText(j, opt_text) ==
    IF j < NumLines /\ ~OptionTextStops(LineAt(j))
    THEN CollectOptionText(j + 1, opt_text \o <<" ">> \o LineAt(j))
    ELSE [j |-> j, text |-> opt_text]

\* lines 222-223
ImplicitSection(sec) == IF sec = None THEN Some(Section(0, ContinuationName)) ELSE sec

HistImplicit(h, sec) ==
    IF sec = None THEN [h EXCEPT !.cur = HistSection(-1)] ELSE h

\* lines 219-246, question accepted
QuestionStart ==
    /\ AtLine("question")
    /\ LET m      == QuestionMatch(LineAt(i))
           sec    == ImplicitSection(current_section)
           h0     == HistImplicit(history, current_section)
           commit == CommitAtQuestion(current_question)
           got    == CollectQuestionText(i + 1, m.rest)
       IN  /\ current_section' =
                 IF commit THEN Some(WithQuestion(sec[1], current_question[1])) ELSE sec
           /\ history' = [(IF commit THEN HistCommitted(h0) ELSE h0) EXCEPT !.open = i]
           /\ current_question' = Some(Question(m.num, clean_text(got.text), PageAt(i)))
           /\ i' = got.j
    /\ UNCHANGED <<lines_with_pages, current_answers, quiz_data, imageVars, pc>>

\* lines 219-227 then 277: question_match matched, the heuristic rejected it
RejectedQuestionLine ==
    /\ AtLine("rejected")
    /\ current_section' = ImplicitSection(current_section)
    /\ history' = HistImplicit(history, current_section)
    /\ i' = i + 1
    /\ UNCHANGED <<lines_with_pages, current_question, current_answers, quiz_data,
                   imageVars, pc>>

\* lines 248-268
OptionLine ==
    /\ AtLine("option")
    /\ LET m   == OptionMatch(LineAt(i))
           got == CollectOptionText(i + 1, m.rest)
       IN  /\ current_question' =
                 Some([current_question[1] EXCEPT
                         !.options = Append(@, Option(m.label, clean_text(got.text)))])
           /\ i' = got.j
    /\ UNCHANGED <<lines_with_pages, current_section, current_answers, quiz_data,
                   imageVars, pc, history>>

\* lines 270-275
DateLine ==
    /\ AtLine("date")
    /\ current_question' =
          Some([current_question[1] EXCEPT !.date = Some(Strip(DateMatch(LineAt(i)).rest))])
    /\ i' = i + 1
    /\ UNCHANGED <<lines_with_pages, current_section, current_answers, quiz_data,
                   imageVars, pc, history>>

\* line 277
SkipOtherLine ==
    /\ AtLine("other")
    /\ i' = i + 1
    /\ UNCHANGED <<lines_with_pages, current_section, current_question,
                   current_answers, quiz_data, imageVars, pc, history>>

\* line 280: current_section and current_section.questions
SaveLastSection(sec) == sec # None /\ sec[1].questions # <<>>

\* lines 279-286
EndOfScan ==
    /\ pc = "scan"
    /\ i >= NumLines
    /\ LET save   == SaveLastSection(current_section)
           commit == save /\ CommitAtEnd(current_question)
           sec    == IF commit
                     THEN Some(WithQuestion(current_section[1], current_question[1]))
                     ELSE current_section
           h1     == IF commit THEN HistCommitted(history) ELSE history
       IN  /\ current_section' =
                 IF save
                 THEN Some([sec[1] EXCEPT !.questions = ApplyAnswers(@, current_answers)])
                 ELSE sec
           /\ quiz_data' =
                 IF save
                 THEN [quiz_data EXCEPT !.sections =
                         Append(@, [sec[1] EXCEPT !.questions =
                                       ApplyAnswers(@, current_answers)])]
                 ELSE quiz_data
           /\ history' = IF save THEN [h1 EXCEPT !.doc = Append(@, h1.cur)] ELSE h1
    /\ pc' = "group"
    /\ UNCHANGED <<lines_with_pages, i, current_question, current_answers, imageVars>>

(***************************************************************************)
(* Images.  A descriptor is the dict of extract_images_from_page:          *)
(* filename, page, rect (None or a rectangle with x0, y0) and y_pos.       *)
(***************************************************************************)
\* line 75: f"page{page_num:02d}_img{img_idx:02d}.{image_ext}"
ImageFilename(page_num, img_idx, image_ext) ==
    <<"page", page_num, "_img", img_idx, ".", image_ext>>

\* lines 80-85
Descriptor(page_num, img_idx, rect) ==
    [filename |-> ImageFilename(page_num, img_idx, "png"),
     page     |-> page_num,
     rect     |-> rect,
     y_pos    |-> IF rect # None THEN rect[1].y0 ELSE 0]

(***************************************************************************)
(* First pass.  A page of the source document is its text, already split   *)
(* at the newlines (a text without newline is one line), its embedded      *)
(* images and whether get_text or get_images raises on it.  An embedded    *)
(* image has the size of its bytes, its rectangle on the page and where    *)
(* its extraction fails: nowhere, before the file is opened ("extract") or *)
(* while the bytes are written ("write", the file is left truncated).      *)
(***************************************************************************)
Page(text, images, raises) == [text |-> text, images |-> images, raises |-> raises]

Embedded(size, rect, fail) == [size |-> size, rect |-> rect, fail |-> fail]

\* line 63: enumerate(image_list, 1) numbers every image of the page
FileIndex_CountsExtracted(img_idx, images) == Len(images) + 1

FileIndex(img_idx, images) == img_idx

\* lines 63-87: images[k..] of the page, after `acc` was extracted
RECURSIVE ExtractFrom(_, _, _, _)
ExtractFrom(image_list, img_idx, page_num, acc) ==
    IF img_idx > Len(image_list) THEN acc
    ELSE LET img  == image_list[img_idx]
             desc == Descriptor(page_num, FileIndex(img_idx, acc.images), img.rect)
         IN  ExtractFrom(image_list, img_idx + 1, page_num,
                CASE img.fail = "none" ->
                        [images |-> Append(acc.images, desc),
                         files  |-> [f \in DOMAIN acc.files \cup {desc.filename} |->
                                        IF f = desc.filename THEN img.size
                                        ELSE acc.files[f]]]
                  [] img.fail = "write" ->
                        [images |-> acc.images,
                         files  |-> [f \in DOMAIN acc.files \cup {desc.filename} |->
                                        IF f = desc.filename THEN 0 ELSE acc.files[f]]]
                  [] OTHER -> acc)

\* lines 58-89: the descriptors of the page and the directory afterwards
extract_images_from_page(page, page_num, files) ==
    ExtractFrom(page.images, 1, page_num, [images |-> <<>>, files |-> files])

\* lines 132-143: one iteration of the first pass; an exception of get_text
\* (line 134) or get_images (line 61) leaves parse_pdf at once
ExtractPage ==
    /\ pc = "extract"
    /\ Len(page_content) < Len(pdf)
    /\ LET page_num == Len(page_content) + 1
           page     == pdf[page_num]
           got      == extract_images_from_page(page, page_num, disk)
       IN  IF page.raises # "none"
           THEN /\ pc' = "raised"
                /\ UNCHANGED <<page_content, all_images, disk>>
           ELSE /\ page_content' =
                      Append(page_content, [text |-> page.text, images |-> got.images])
                /\ all_images' = all_images \o got.images
                /\ disk' = got.files
                /\ pc' = "extract"
    /\ UNCHANGED <<lines_with_pages, i, current_section, current_question,
                   current_answers, quiz_data, images_by_page, history,
                   pdf, doc_open, json_out, outcome>>

\* line 92: min_size
MinImageSize == 200

\* lines 92-99: the directory after the files below min_size were unlinked
cleanup_tiny_images(files, min_size) ==
    [f \in {g \in DOMAIN files : ~(files[g] < min_size)} |-> files[f]]

\* lines 152-153, without the filter
SurvivingImages_Unfiltered(imgs, files) == imgs

\* lines 152-153: the descriptors whose file exists
RECURSIVE SurvivingImages(_, _)
SurvivingImages(imgs, files) ==
    IF imgs = <<>> THEN <<>>
    ELSE IF imgs[1].filename \in DOMAIN files
         THEN <<imgs[1]>> \o SurvivingImages(Tail(imgs), files)
         ELSE SurvivingImages(Tail(imgs), files)

\* lines 156-160: the lines of all pages with their page number
RECURSIVE LinesOfPages(_, _)
LinesOfPages(content, page_num) ==
    IF page_num > Len(content) THEN <<>>
    ELSE [k \in DOMAIN content[page_num].text |-> <<content[page_num].text[k], page_num>>]
         \o LinesOfPages(content, page_num + 1)

\* lines 145-160: the document is closed, the tiny files are deleted, the
\* descriptors are filtered if a file was deleted, the lines are laid out
CleanupImages ==
    /\ pc = "extract"
    /\ Len(page_content) = Len(pdf)
    /\ doc_open' = FALSE
    /\ LET kept    == cleanup_tiny_images(disk, MinImageSize)
           deleted == Cardinality(DOMAIN disk) - Cardinality(DOMAIN kept)
       IN  /\ disk' = kept
           /\ all_images' = IF deleted > 0 THEN SurvivingImages(all_images, kept)
                            ELSE all_images
    /\ lines_with_pages' = LinesOfPages(page_content, 1)
    /\ pc' = "scan"
    /\ UNCHANGED <<i, current_section, current_question, current_answers, quiz_data,
                   images_by_page, history, pdf, page_content, json_out, outcome>>

\* line 122, then line 305: images_dir.name
ImagesDirName == "doc_images"

\* lines 369, 373: f"{images_dir}/{filename}"
ImagePath(images_dir, filename) == <<images_dir, "/", filename>>

RowTolerance == 100

\* round(y / 100) with a half rounded up
RoundRow_HalfUp(y) == (2 * y + RowTolerance) \div (2 * RowTolerance)

\* round(y / 100): Python rounds a half to the even neighbour
RoundRow(y) ==
    LET q == y \div RowTolerance
        r == y % RowTolerance
    IN  IF 2 * r < RowTolerance THEN q
        ELSE IF 2 * r > RowTolerance THEN q + 1
        ELSE IF q % 2 = 0 THEN q ELSE q + 1

\* lines 299-302: the sort key of a descriptor
SortKey(x) ==
    <<RoundRow(x.y_pos) * RowTolerance, IF x.rect # None THEN x.rect[1].x0 ELSE 0>>

KeyLess(a, b) == a[1] < b[1] \/ (a[1] = b[1] /\ a[2] < b[2])

\* list.sort(key=...): stable, ascending
RECURSIVE InsertSorted(_, _)
InsertSorted(sorted, x) ==
    IF sorted = <<>> THEN <<x>>
    ELSE IF KeyLess(SortKey(x), SortKey(sorted[Len(sorted)]))
         THEN Append(InsertSorted(SubSeq(sorted, 1, Len(sorted) - 1), x),
                     sorted[Len(sorted)])
         ELSE Append(sorted, x)

RECURSIVE SortImages(_)
SortImages(imgs) ==
    IF imgs = <<>> THEN <<>>
    ELSE InsertSorted(SortImages(SubSeq(imgs, 1, Len(imgs) - 1)), imgs[Len(imgs)])

\* the descriptors of one page, in list order (lines 290-294)
RECURSIVE OnPage(_, _)
OnPage(imgs, page) ==
    IF imgs = <<>> THEN <<>>
    ELSE IF imgs[1].page = page
         THEN <<imgs[1]>> \o OnPage(Tail(imgs), page)
         ELSE OnPage(Tail(imgs), page)

\* lines 288-302
GroupImages ==
    /\ pc = "group"
    /\ images_by_page' =
          [page \in {all_images[k].page : k \in DOMAIN all_images} |->
              SortImages(OnPage(all_images, page))]
    /\ pc' = "assign"
    /\ UNCHANGED <<lines_with_pages, i, current_section, current_question,
                   current_answers, quiz_data, all_images, history, fileVars>>

(***************************************************************************)
(* assign_images_to_questions.                                             *)
(***************************************************************************)
EXCLUDE_IMAGE == {<<17, 8>>}

IMAGE_KEYWORDS ==
    { <<"o", "b", "r", "a'", "z", "k", "u">>,
      <<"o", "b", "r", "a'", "z", "e", "k">>,
      <<"o", "b", "r", "a'", "z", "k", "u*">>,
      <<"n", "a", " ", "o", "b", "r", "a'", "z", "k", "u">>,
      <<"n", "a", " ", "m", "a", "p", "e^">>,
      <<"b", "a", "n", "k", "o", "v", "c", "e">>,
      <<"t", "a", "t", "o", " ", "s", "o", "c", "h", "a">>,
      <<"t", "e'", "t", "o", " ", "s", "o", "c", "h", "y">>,
      <<"t", "a", "t", "o", " ", "p", "a", "n", "o", "v", "n", "i", "c", "e">>,
      <<"t", "a", "t", "o", " ", "b", "u", "d", "o", "v", "a">>,
      <<"t", "e'", "t", "o", " ", "b", "u", "d", "o", "v", "y">>,
      <<"t", "a", "t", "o", " ", "s", "t", "a", "v", "b", "a">>,
      <<"t", "a", "t", "o", " ", "h", "o", "r", "a">> }

ShortOptionLimit == 50

GridSize == 4

\* faulty variant of line 342: the pair is looked up the wrong way round
IsExcluded_Swapped(section_id, question_id) == <<question_id, section_id>> \in EXCLUDE_IMAGE

\* line 342
IsExcluded(section_id, question_id) == <<section_id, question_id>> \in EXCLUDE_IMAGE

\* lines 346-347
MentionsImage(text) == \E kw \in IMAGE_KEYWORDS : Contains(Lower(text), kw)

\* images_by_page.get(page, [])
ImagesOf(by_page, page) == IF page \in DOMAIN by_page THEN by_page[page] ELSE <<>>

\* lines 350-355
CandidateImages(by_page, q_page, mentions_image) ==
    IF ImagesOf(by_page, q_page) = <<>> /\ mentions_image
    THEN ImagesOf(by_page, q_page + 1)
    ELSE ImagesOf(by_page, q_page)

\* faulty variant of line 363: more than four images are asked for
IsGridCase_MoreThanFour(question, page_images, mentions_image) ==
    /\ \A k \in DOMAIN question.options : Len(question.options[k].text) < ShortOptionLimit
    /\ Len(question.options) = GridSize
    /\ Len(page_images) > GridSize
    /\ mentions_image

\* lines 361-366
IsGridCase(question, page_images, mentions_image) ==
    /\ \A k \in DOMAIN question.options : Len(question.options[k].text) < ShortOptionLimit
    /\ Len(question.options) = GridSize
    /\ Len(page_images) >= GridSize
    /\ mentions_image

\* faulty variant of line 372: the keyword is not asked for
IsSingleCase_NoKeyword(page_images, mentions_image) == Len(page_images) >= 1

\* line 372
IsSingleCase(page_images, mentions_image) == Len(page_images) >= 1 /\ mentions_image

\* lines 341-373: the body of the inner loop
AssignQuestion(section_id, question, by_page, images_dir) ==
    LET mentions_image == MentionsImage(question.text)
        page_images    == CandidateImages(by_page, question.page, mentions_image)
    IN  IF IsExcluded(section_id, question.id) THEN question
        ELSE IF page_images = <<>> THEN question
        ELSE IF IsGridCase(question, page_images, mentions_image)
             THEN [question EXCEPT !.options =
                     [idx \in DOMAIN question.options |->
                         IF idx <= Len(page_images)
                         THEN [question.options[idx] EXCEPT !.image =
                                 Some(ImagePath(images_dir, page_images[idx].filename))]
                         ELSE question.options[idx]]]
        ELSE IF IsSingleCase(page_images, mentions_image)
             THEN [question EXCEPT !.image =
                     Some(ImagePath(images_dir, page_images[1].filename))]
        ELSE question

\* lines 339-340 over the whole document
assign_images_to_questions(data, by_page, images_dir) ==
    [data EXCEPT !.sections =
        [s \in DOMAIN data.sections |->
            [data.sections[s] EXCEPT !.questions =
                [q \in DOMAIN data.sections[s].questions |->
                    AssignQuestion(data.sections[s].id, data.sections[s].questions[q],
                                   by_page, images_dir)]]]]

\* line 305
AssignImages ==
    /\ pc = "assign"
    /\ quiz_data' = assign_images_to_questions(quiz_data, images_by_page, ImagesDirName)
    /\ pc' = "done"
    /\ UNCHANGED <<lines_with_pages, i, current_section, current_question,
                   current_answers, imageVars, history>>

(***************************************************************************)
(* convert_to_dict and process_pdf.  A mapping is a function from its keys *)
(* to their values; a key that is left out is not in its domain.           *)
(***************************************************************************)
\* lines 391, 397, 398, never true
Truthy_Never(value) == FALSE

\* lines 391, 397, 398: `if opt.image`, `if q.image`, `if q.date`; None and
\* the empty string are false
Truthy(value) == value # None /\ value[1] # <<>>

\* lines 391, 397, 398: **({key: value} if value else {})
OptionalKey(key, value) == IF Truthy(value) THEN key :> value[1] ELSE EmptyDict

\* lines 388-392
OptionDict(opt) ==
    [label |-> opt.label, text |-> opt.text] @@ OptionalKey("image", opt.image)

\* lines 385-399
QuestionDict(q) ==
    [id      |-> q.id,
     text    |-> q.text,
     options |-> [o \in DOMAIN q.options |-> OptionDict(q.options[o])],
     correct |-> q.correct]
    @@ OptionalKey("image", q.image) @@ OptionalKey("date", q.date)

\* lines 376-405
convert_to_dict(data) ==
    [source_file |-> data.source_file,
     sections    |->
        [s \in DOMAIN data.sections |->
            [id        |-> data.sections[s].id,
             name      |-> data.sections[s].name,
             questions |-> [q \in DOMAIN data.sections[s].questions |->
                              QuestionDict(data.sections[s].questions[q])]]]]

\* lines 416-422: the mapping is written to the JSON file
WriteJson ==
    /\ pc = "done"
    /\ json_out' = Some(convert_to_dict(quiz_data))
    /\ pc' = "written"
    /\ UNCHANGED <<lines_with_pages, i, current_section, current_question,
                   current_answers, quiz_data, all_images, images_by_page, history,
                   pdf, page_content, disk, doc_open, outcome>>

(***************************************************************************)
(* validate_images.py.  A path is the sequence of its components and of    *)
(* the "/" between them; a file name alone is a path of one component.     *)
(***************************************************************************)
\* lines 55, 58: path.split("/")[-1], what follows the last "/"
RECURSIVE SplitLast(_)
SplitLast(path) ==
    IF \E k \in DOMAIN path : path[k] = "/"
    THEN SplitLast(Tail(path))
    ELSE path

\* dict.get(key): the value, or None
Get(mapping, key) == IF key \in DOMAIN mapping THEN Some(mapping[key]) ELSE None

\* lines 49-59
get_referenced_images(data) ==
    LET questions == UNION {{data.sections[s].questions[q] :
                                q \in DOMAIN data.sections[s].questions} :
                            s \in DOMAIN data.sections}
        options   == UNION {{question.options[o] : o \in DOMAIN question.options} :
                            question \in questions}
    IN  {SplitLast(holder.image) :
            holder \in {h \in questions \cup options : Truthy(Get(h, "image"))}}

\* line 144
OrphanLimit == 5

\* lines 141-149 with the test of the orphans first
FinalStatus_OrphansFirst(missing, orphaned) ==
    IF Cardinality(orphaned) > OrphanLimit THEN [status |-> "WARNING", code |-> 0]
    ELSE IF missing # {} THEN [status |-> "FAILED", code |-> 1]
         ELSE [status |-> "OK", code |-> 0]

\* lines 141-149: the status line and the exit code
FinalStatus(missing, orphaned) ==
    IF missing # {} THEN [status |-> "FAILED", code |-> 1]
    ELSE IF Cardinality(orphaned) > OrphanLimit
         THEN [status |-> "WARNING", code |-> 0]
         ELSE [status |-> "OK", code |-> 0]

\* lines 97-103 and 141-149
validate(data, files) ==
    LET dir_images  == {<<name>> : name \in DOMAIN files}
        json_images == get_referenced_images(data)
        orphaned    == dir_images \ json_images
        missing     == json_images \ dir_images
    IN  [orphaned |-> orphaned, missing |-> missing,
         final    |-> FinalStatus(missing, orphaned)]

\* validate_images.py main: the JSON file and the images directory are read
Validate ==
    /\ pc = "written"
    /\ outcome' = Some(validate(json_out[1], disk))
    /\ pc' = "validated"
    /\ UNCHANGED <<lines_with_pages, i, current_section, current_question,
                   current_answers, quiz_data, all_images, images_by_page, history,
                   pdf, page_content, disk, doc_open, json_out>>

(***************************************************************************)
(* Input lines.                                                            *)
(***************************************************************************)
LBlank == <<>>

LPageNo == <<"7">>

LBoiler == <<"T", "E", "S", "T", "O", "V", "E'", " ", "U'", "L", "O", "H", "Y">>

LSection1 == <<"1", ".", " ", "A", "B">>

LSection17 == <<"1", "7", ".", " ", "H", "O", "R", "Y">>

LQuestion1 == <<"1", ".", " ", "K", "d", "o", "?">>

LQuestion2 == <<"2", ".", " ", "c", "o">>

LQuestionPic == <<"1", ".", " ", "N", "a", " ", "o", "b", "r", "a'", "z", "k", "u", "?">>

LQuestionHora == <<"8", ".", " ", "t", "a", "t", "o", " ", "h", "o", "r", "a", "?">>

LNumbered == <<"1", "2", ".", " ", "a", "b", "c">>

\* a question start without whitespace after the dot
LTight == <<"2", ".", "c", "o", "?">>

LOptionA == <<"A", ")", " ", "x">>

LOptionB == <<"B", ")", " ", "y">>

LOptionC == <<"C", ")", " ", "z">>

\* "D) " followed by n characters
LOptionD(n) == <<"D", ")", " ">> \o [k \in 1..n |-> "w"]

LKey1 == AnswersMarkerColon \o <<" ", "1", "A">>

LKey2 == AnswersMarkerColon \o <<" ", "1", "D", ",", " ", "2", "B">>

LDate == DatePrefix \o <<" ", "1", ".", "1", ".">>

LText == <<"t", "e", "x", "t">>

LineSet ==
    {LBlank, LPageNo, LBoiler, LSection1, LQuestion1, LQuestion2, LNumbered, LTight,
     LOptionA, LOptionB, LKey1, LKey2, LDate, LText}

CoreLines == {LSection1, LQuestion1, LQuestion2, LOptionA, LKey1, LKey2}

\* every input of at most MaxShort lines over LineSet, and every input of at
\* most MaxLines lines over CoreLines
MaxShort == 3

MaxLines == 5

Inputs(alphabet, maxLen) == UNION {[1..n -> alphabet] : n \in 0..maxLen}

ParserInputs == Inputs(LineSet, MaxShort) \cup Inputs(CoreLines, MaxLines)

Rect(x0, y0) == Some([x0 |-> x0, y0 |-> y0])

InitScan ==
    /\ i = 0
    /\ current_section = None
    /\ current_question = None
    /\ current_answers = EmptyDict
    /\ quiz_data = QuizData("doc.pdf")
    /\ images_by_page = EmptyDict
    /\ history = HistInit

\* state at line 130: the document is open, nothing is extracted yet and
\* the images directory is empty
InitExtract ==
    /\ lines_with_pages = <<>>
    /\ page_content = <<>>
    /\ all_images = <<>>
    /\ disk = EmptyDict
    /\ doc_open = TRUE
    /\ json_out = None
    /\ outcome = None
    /\ pc = "extract"
    /\ InitScan

\* a document without pages, or of one page without images
Init ==
    /\ \E text \in ParserInputs :
          pdf = IF text = <<>> THEN <<>> ELSE <<Page(text, <<>>, "none")>>
    /\ InitExtract

Next ==
    \/ ExtractPage
    \/ CleanupImages
    \/ SkipEmptyLine
    \/ SkipHeaderLine
    \/ SectionHeader
    \/ AnswersLine
    \/ QuestionStart
    \/ RejectedQuestionLine
    \/ OptionLine
    \/ DateLine
    \/ SkipOtherLine
    \/ EndOfScan
    \/ GroupImages
    \/ AssignImages
    \/ WriteJson
    \/ Validate

Spec == Init /\ [][Next]_vars

(***************************************************************************)
(* Documents with images: a section header, two questions with their       *)
(* options and a tail, laid out on up to MaxPages pages, every page with   *)
(* no image, one image or four images; section 17 comes without the       *)
(* boilerplate around it.                                                  *)
(***************************************************************************)
MaxPages == 3

OptionBlocks ==
    { <<LOptionA>>,
      <<LOptionA, LOptionB, LOptionC, LOptionD(ShortOptionLimit - 1)>>,
      <<LOptionA, LOptionB, LOptionC, LOptionD(ShortOptionLimit)>> }

QuestionBlocks ==
    {<<q>> \o opts : q \in {LQuestionPic, LQuestionHora, LQuestion2}, opts \in OptionBlocks}

SecondBlocks ==
    { <<LQuestion2, LOptionA>>,
      <<LQuestionHora, LOptionA>>,
      <<LQuestionPic, LOptionA, LOptionB, LOptionC, LOptionD(1)>> }

\* what surrounds the questions: nothing and an answer key, or boilerplate,
\* a page number, a date, a numbered line and plain text
Frames ==
    { [pre |-> <<>>, tail |-> <<LKey1>>],
      [pre |-> <<LBoiler, LPageNo>>, tail |-> <<LDate, LNumbered, LText>>] }

\* the embedded images of a page in enumeration order: the four images are
\* a 2x2 grid enumerated out of reading order; image 1 of the single-image
\* page is an artifact below the minimal size and image 2 has no rectangle
EmbeddedImages(choice) ==
    CASE choice = "none" -> <<>>
      [] choice = "one"  -> << Embedded(MinImageSize - 1, None, "none"),
                               Embedded(MinImageSize, None, "none") >>
      [] choice = "four" -> << Embedded(MinImageSize, Rect(200, 10), "none"),
                               Embedded(MinImageSize + 1, Rect(0, 40), "none"),
                               Embedded(MinImageSize + 2, Rect(0, 160), "none"),
                               Embedded(MinImageSize + 3, Rect(200, 150), "none") >>

\* a page whose text is empty gives the one line ''
InitBind ==
    /\ \E frame \in Frames, header \in {LSection1, LSection17},
          first \in QuestionBlocks, second \in SecondBlocks,
          pages \in 1..MaxPages, second_page \in {1, 2} :
          /\ second_page <= pages
          /\ header = LSection17 => frame.pre = <<>>
          /\ \E choices \in [1..pages -> {"none", "one", "four"}] :
                pdf = [page_num \in 1..pages |->
                         Page((IF page_num = 1 THEN frame.pre \o <<header>> \o first
                               ELSE <<>>)
                              \o (IF page_num = second_page THEN second \o frame.tail
                                  ELSE IF page_num = 1 THEN <<>> ELSE <<LBlank>>),
                              EmbeddedImages(choices[page_num]), "none")]
    /\ InitExtract

SpecBind == InitBind /\ [][Next]_vars

(***************************************************************************)
(* Documents whose extraction can fail: a first page with every kind of    *)
(* line or with two sections, and with up to MaxEmbedded embedded images,  *)
(* each large enough, too small or failing, then possibly a second page;   *)
(* get_text or get_images may raise on one of the pages.                   *)
(***************************************************************************)
MaxEmbedded == 2

EmbeddedKinds ==
    { Embedded(MinImageSize, Rect(0, 10), "none"),
      Embedded(MinImageSize - 1, Rect(0, 10), "none"),
      Embedded(MinImageSize, Rect(0, 10), "extract"),
      Embedded(MinImageSize, Rect(0, 10), "write") }

FirstPageTexts ==
    { <<LBoiler, LBlank, LText, LSection1, LQuestionPic, LOptionA, LDate,
        LQuestion2, LOptionA, LKey1, LNumbered>>,
      <<LSection1, LQuestionPic, LOptionA, LOptionB, LQuestion2, LOptionA, LKey2,
        LSection17, LQuestionHora, LOptionA, LOptionB, LKey1>> }

SecondPages ==
    { Page(text, images, "none") :
        text   \in {<<LBlank>>, <<LQuestionPic, LOptionA, LKey1>>},
        images \in {<<>>} \cup {<<img>> : img \in {e \in EmbeddedKinds : e.fail = "none"}} }

\* the document with get_text or get_images raising on page page_num
Raising(doc, page_num, raises) ==
    [k \in DOMAIN doc |-> IF k = page_num THEN [doc[k] EXCEPT !.raises = raises]
                          ELSE doc[k]]

InitFiles ==
    /\ \E text \in FirstPageTexts, images \in Inputs(EmbeddedKinds, MaxEmbedded),
          rest \in {<<>>} \cup {<<page>> : page \in SecondPages} :
          LET doc == <<Page(text, images, "none")>> \o rest
          IN  pdf \in {doc} \cup {Raising(doc, page_num, raises) :
                                     page_num \in DOMAIN doc,
                                     raises \in {"text", "images"}}
    /\ InitExtract

SpecFiles == InitFiles /\ [][Next]_vars

(***************************************************************************)
(* Documents of images only: a page without text and with up to MaxSorted  *)
(* images, each without rectangle or with its left edge at 0 or 200 and    *)
(* its top edge inside a band, just below the middle between two bands or  *)
(* exactly in the middle, then possibly a second page with one image.      *)
(* Only the steps such a document takes up to the grouping are in the      *)
(* next-state relation.                                                    *)
(***************************************************************************)
MaxSorted == 3

SortedKinds ==
    {Embedded(MinImageSize, None, "none")}
    \cup {Embedded(MinImageSize, Rect(x0, y0), "none") :
             x0 \in {0, 200}, y0 \in {40, 50, 149, 150, 250}}

InitSort ==
    /\ \E images \in Inputs(SortedKinds, MaxSorted),
          rest \in {<<>>, <<Page(<<LBlank>>, <<Embedded(MinImageSize, None, "none")>>, "none")>>} :
          pdf = <<Page(<<LBlank>>, images, "none")>> \o rest
    /\ InitExtract

NextSort ==
    \/ ExtractPage
    \/ CleanupImages
    \/ SkipEmptyLine
    \/ EndOfScan
    \/ GroupImages

SpecSort == InitSort /\ [][NextSort]_vars

(***************************************************************************)
(* The validator on any JSON file and any images directory: a document of  *)
(* MaxFiles questions, where question k refers to image k or to none (the  *)
(* first question in its option, the others themselves), and a directory   *)
(* that holds any of the MaxFiles images.                                  *)
(***************************************************************************)
MaxFiles == 7

FileName(k) == ImageFilename(1, k, "png")

Referring(refs) ==
    [QuizData("doc.pdf") EXCEPT !.sections =
        << [Section(1, <<"A", "B">>) EXCEPT !.questions =
              [k \in 1..MaxFiles |->
                 LET path  == IF k \in refs
                              THEN Some(ImagePath(ImagesDirName, FileName(k)))
                              ELSE None
                     first == k = 1
                 IN  [Question(k, <<"c", "o">>, 1) EXCEPT
                        !.options = <<[Option("A", <<"x">>) EXCEPT
                                          !.image = IF first THEN path ELSE None]>>,
                        !.image   = IF first THEN None ELSE path]]] >>]

InitValidate ==
    /\ \E refs \in SUBSET (1..MaxFiles), present \in SUBSET (1..MaxFiles) :
          /\ quiz_data = Referring(refs)
          /\ json_out = Some(convert_to_dict(Referring(refs)))
          /\ disk = [name \in {FileName(k) : k \in present} |-> MinImageSize]
    /\ pc = "written"
    /\ pdf = <<>>
    /\ page_content = <<>>
    /\ lines_with_pages = <<>>
    /\ all_images = <<>>
    /\ images_by_page = EmptyDict
    /\ doc_open = FALSE
    /\ outcome = None
    /\ i = 0
    /\ current_section = None
    /\ current_question = None
    /\ current_answers = EmptyDict
    /\ history = HistInit

SpecValidate == InitValidate /\ [][Validate]_vars

(***************************************************************************)
(* Properties.                                                             *)
(***************************************************************************)
Sections == quiz_data.sections

\* the positions <<s, k>> of the questions of the document
QuestionPositions ==
    UNION {{<<s, k>> : k \in DOMAIN Sections[s].questions} : s \in DOMAIN Sections}

QuestionAt(pos) == Sections[pos[1]].questions[pos[2]]

Labels(question) == {question.options[o].label : o \in DOMAIN question.options}

\* C1: every question of a section, of the document or of the section being
\* built, has at least one option: no commit point appends a question whose
\* option list is empty.
C1_CommittedQuestionsHaveOptions ==
    /\ \A pos \in QuestionPositions : QuestionAt(pos).options # <<>>
    /\ current_section # None =>
          \A k \in DOMAIN current_section[1].questions :
              current_section[1].questions[k].options # <<>>

\* C1 witness: the scan ended with an open question that has no option, the
\* document has a section, and the open question is not in it.
C1_Witness ==
    /\ pc = "done"
    /\ Sections # <<>>
    /\ current_question # None
    /\ current_question[1].options = <<>>

\* C2: after the end of the scan, if a current section exists and the open
\* question has at least one option, the last section of the document is the
\* current section and its last question is the open question, with the
\* pending answer letters applied to every question of the section.
C2_LastQuestionCommitted ==
    ( /\ pc = "group"
      /\ current_section # None
      /\ current_question # None
      /\ current_question[1].options # <<>> )
    => /\ Sections # <<>>
       /\ LET last == Sections[Len(Sections)]
          IN  /\ last.id = current_section[1].id
              /\ last.name = current_section[1].name
              /\ last.questions # <<>>
              /\ last.questions[Len(last.questions)].id = current_question[1].id
              /\ last.questions[Len(last.questions)].text = current_question[1].text
              /\ last.questions[Len(last.questions)].options = current_question[1].options
              /\ \A k \in DOMAIN last.questions :
                    last.questions[k].id \in DOMAIN current_answers =>
                        last.questions[k].correct = current_answers[last.questions[k].id]

\* C3: the correct field of every question of the document is empty or the
\* label of one of the question's own options.
C3_CorrectIsAnOfferedLabel ==
    \A pos \in QuestionPositions :
        QuestionAt(pos).correct = "" \/ QuestionAt(pos).correct \in Labels(QuestionAt(pos))

\* C4: a question that was collected in its section when an answer-key line
\* listing its id was met has, in the document, the letter of the last such
\* line.
C4_KeyLettersReachTheDocument ==
    \A pos \in QuestionPositions :
        history.doc[pos[1]].expect[pos[2]] # "" =>
            QuestionAt(pos).correct = history.doc[pos[1]].expect[pos[2]]

\* C5: an answer-key line merges its tokens into the pending answer map: the
\* ids it names are overwritten, the other entries are kept.
C5_KeyLineMerges ==
    [][AtLine("answers") =>
          current_answers' = parse_answers_line(LineAt(i)) @@ current_answers]_vars

\* the letter a question has is given for its id by an answer-key line after
\* line number `after`
GivenAfter(question, after) ==
    \E j \in (after + 1)..(NumLines - 1) :
        /\ IsAnswersLine(LineAt(j))
        /\ question.id \in DOMAIN parse_answers_line(LineAt(j))
        /\ parse_answers_line(LineAt(j))[question.id] = question.correct

\* C6: the pending answer map is empty right after a section header, and a
\* question of a section opened by a header has no letter or a letter that
\* an answer-key line after that header gives for its id.
C6_NoLetterCrossesAHeader ==
    /\ (pc = "scan" /\ i >= 1 /\ Kind(LineAt(i - 1), FALSE) = "section")
          => current_answers = EmptyDict
    /\ \A pos \in QuestionPositions :
          history.doc[pos[1]].opened_at >= 0 =>
              \/ QuestionAt(pos).correct = ""
              \/ GivenAfter(QuestionAt(pos), history.doc[pos[1]].opened_at)

\* C6 witness: the document has a question in a section opened by a header,
\* and an answer-key line before that header lists the question's id.
C6_Witness ==
    /\ pc = "done"
    /\ \E pos \in QuestionPositions :
          /\ history.doc[pos[1]].opened_at >= 1
          /\ \E j \in 0..(history.doc[pos[1]].opened_at - 1) :
                /\ Kind(LineAt(j), FALSE) = "answers"
                /\ QuestionAt(pos).id \in DOMAIN parse_answers_line(LineAt(j))

\* the image fields of the document that are set: <<s, k, 0>> is the image
\* of a question, <<s, k, o>> the image of its option o
ImageSlots ==
    {<<pos[1], pos[2], 0>> : pos \in {p \in QuestionPositions : QuestionAt(p).image # None}}
    \cup UNION {{<<pos[1], pos[2], o>> :
                    o \in {n \in DOMAIN QuestionAt(pos).options :
                              QuestionAt(pos).options[n].image # None}} :
                pos \in QuestionPositions}

SlotImage(slot) ==
    IF slot[3] = 0
    THEN QuestionAt(<<slot[1], slot[2]>>).image[1]
    ELSE QuestionAt(<<slot[1], slot[2]>>).options[slot[3]].image[1]

\* C7: after the binder, no two image fields of the document hold the same
\* image.
C7_NoImageAssignedTwice ==
    pc = "done" =>
        \A a, b \in ImageSlots : a # b => SlotImage(a) # SlotImage(b)

\* C8: a question whose (section id, question id) is in the exclusion set
\* has no image and none of its options has one.
C8_ExcludedQuestionsGetNoImage ==
    \A pos \in QuestionPositions :
        <<Sections[pos[1]].id, QuestionAt(pos).id>> \in EXCLUDE_IMAGE =>
            /\ QuestionAt(pos).image = None
            /\ \A o \in DOMAIN QuestionAt(pos).options :
                  QuestionAt(pos).options[o].image = None

\* C8 witness: the binder has run over an excluded question that mentions an
\* image and whose page has curated images.
C8_Witness ==
    /\ pc = "done"
    /\ \E pos \in QuestionPositions :
          /\ <<Sections[pos[1]].id, QuestionAt(pos).id>> \in EXCLUDE_IMAGE
          /\ MentionsImage(QuestionAt(pos).text)
          /\ ImagesOf(images_by_page, QuestionAt(pos).page) # <<>>

\* the candidate images of a question: those of its page, else of the next
Candidates(question) ==
    IF ImagesOf(images_by_page, question.page) # <<>>
    THEN ImagesOf(images_by_page, question.page)
    ELSE ImagesOf(images_by_page, question.page + 1)

\* the precondition of the grid case
GridQuestion(pos) ==
    /\ <<Sections[pos[1]].id, QuestionAt(pos).id>> \notin EXCLUDE_IMAGE
    /\ Len(QuestionAt(pos).options) = 4
    /\ \A o \in DOMAIN QuestionAt(pos).options : Len(QuestionAt(pos).options[o].text) < 50
    /\ Len(Candidates(QuestionAt(pos))) >= 4
    /\ MentionsImage(QuestionAt(pos).text)

\* descriptors in reading order: rows of 100 units top to bottom, left to
\* right within a row
InReadingOrder(imgs) ==
    \A a, b \in DOMAIN imgs : a < b => ~KeyLess(SortKey(imgs[b]), SortKey(imgs[a]))

NearImage(path, page) ==
    \E d \in Range(all_images) :
        /\ path = ImagePath(ImagesDirName, d.filename)
        /\ \/ d.page = page
           \/ d.page = page + 1 /\ \A e \in Range(all_images) : e.page # page

Extracted ==
    UNION {{<<p, k>> : k \in {n \in DOMAIN pdf[p].images : pdf[p].images[n].fail = "none"}} :
           p \in DOMAIN page_content}

FileOf(at) == ImageFilename(at[1], at[2], "png")

\* C11: once the curator has run, the file of an extracted image is gone
\* exactly if the image has fewer than 200 bytes, an image has a descriptor
\* in all_images exactly if its file is still there, every descriptor and
\* every image path of the document names a file of the images directory,
\* and the validator finds no missing image.
C11_CuratedImagesExist ==
    pc \notin {"extract", "raised"} =>
        /\ \A at \in Extracted :
              /\ FileOf(at) \notin DOMAIN disk <=> pdf[at[1]].images[at[2]].size < 200
              /\ FileOf(at) \in DOMAIN disk <=>
                    \E d \in Range(all_images) : d.filename = FileOf(at)
        /\ \A d \in Range(all_images) : d.filename \in DOMAIN disk
        /\ \A slot \in ImageSlots :
              \E name \in DOMAIN disk : SlotImage(slot) = ImagePath(ImagesDirName, name)
        /\ pc = "validated" => outcome[1].missing = {}

\* C11 witness: the validator ran on a document that refers to an image,
\* after the curator deleted the file of another one.
C11_Witness ==
    /\ pc = "validated"
    /\ ImageSlots # {}
    /\ \E at \in Extracted : FileOf(at) \notin DOMAIN disk

(***************************************************************************)
(* Order of the document.                                                  *)
(***************************************************************************)
IsPrefix(a, b) == Len(a) <= Len(b) /\ \A k \in DOMAIN a : a[k] = b[k]

\* what the scan reads from the source for a question and for a section:
\* the letter, the date and the images are filled in later
QuestionContent(question) ==
    [id      |-> question.id,
     text    |-> question.text,
     options |-> [o \in DOMAIN question.options |->
                    [label |-> question.options[o].label,
                     text  |-> question.options[o].text]]]

ContentOf(questions) == [k \in DOMAIN questions |-> QuestionContent(questions[k])]

SectionContent(sec) ==
    [id |-> sec.id, name |-> sec.name, questions |-> ContentOf(sec.questions)]

DocContent(sections) == [s \in DOMAIN sections |-> SectionContent(sections[s])]

\* C12: the document, the section being built and the open question only
\* grow at their end.  A step appends at most one section to the document,
\* and it is the section being built; at most one question to the section
\* being built, and it is the open question; at most one option to the open
\* question, and it is the option of the line at the cursor.  A question
\* and a section are opened from the line at the cursor.  What was appended
\* is never removed, reordered or rewritten, so the order of the document is
\* the order of the lines.
C12_AppendOnly ==
    [][ /\ IsPrefix(DocContent(Sections), DocContent(quiz_data'.sections))
        /\ Len(quiz_data'.sections) <= Len(Sections) + 1
        /\ Len(quiz_data'.sections) = Len(Sections) + 1 =>
              /\ current_section # None
              /\ quiz_data'.sections[Len(Sections) + 1].id = current_section[1].id
              /\ quiz_data'.sections[Len(Sections) + 1].name = current_section[1].name
              /\ IsPrefix(ContentOf(current_section[1].questions),
                          ContentOf(quiz_data'.sections[Len(Sections) + 1].questions))
        /\ AtLine("section") =>
              /\ current_section' # None
              /\ current_section'[1].id = SectionMatch(LineAt(i)).num
              /\ current_section'[1].questions = <<>>
        /\ (current_section # None /\ ~AtLine("section")) =>
              /\ current_section' # None
              /\ current_section'[1].id = current_section[1].id
              /\ current_section'[1].name = current_section[1].name
              /\ IsPrefix(ContentOf(current_section[1].questions),
                          ContentOf(current_section'[1].questions))
        /\ current_section' # None =>
              LET before == IF current_section = None \/ AtLine("section") THEN <<>>
                            ELSE current_section[1].questions
                  after  == current_section'[1].questions
              IN  /\ Len(after) <= Len(before) + 1
                  /\ Len(after) = Len(before) + 1 =>
                        /\ current_question # None
                        /\ QuestionContent(after[Len(after)])
                              = QuestionContent(current_question[1])
        /\ AtLine("question") =>
              /\ current_question' # None
              /\ current_question'[1].id = QuestionMatch(LineAt(i)).num
              /\ current_question'[1].options = <<>>
        /\ (current_question # None /\ current_question' # None /\ ~AtLine("question")) =>
              /\ current_question'[1].id = current_question[1].id
              /\ current_question'[1].text = current_question[1].text
              /\ IsPrefix(current_question[1].options, current_question'[1].options)
              /\ Len(current_question'[1].options) <= Len(current_question[1].options) + 1
        /\ AtLine("option") =>
              /\ current_question' # None
              /\ Len(current_question'[1].options) = Len(current_question[1].options) + 1
              /\ current_question'[1].options[Len(current_question'[1].options)].label
                    = OptionMatch(LineAt(i)).label
      ]_vars

\* C12 witness: a document of two sections, the first with two questions,
\* whose first question has two options.
C12_Witness ==
    /\ pc = "done"
    /\ Len(Sections) = 2
    /\ Len(Sections[1].questions) = 2
    /\ Len(Sections[1].questions[1].options) = 2

(***************************************************************************)
(* Round trip through the mapping of convert_to_dict.  The structure is    *)
(* rebuilt with the constructors of the data classes: a key that is not in *)
(* the mapping leaves the default of its field.                            *)
(***************************************************************************)
OptionFrom(mapping) ==
    [label |-> mapping.label, text |-> mapping.text, image |-> Get(mapping, "image")]

QuestionFrom(mapping) ==
    [id      |-> mapping.id,
     text    |-> mapping.text,
     options |-> [o \in DOMAIN mapping.options |-> OptionFrom(mapping.options[o])],
     correct |-> mapping.correct,
     image   |-> Get(mapping, "image"),
     date    |-> Get(mapping, "date"),
     page    |-> IF "page" \in DOMAIN mapping THEN mapping.page ELSE DefaultPage]

QuizDataFrom(mapping) ==
    [source_file |-> mapping.source_file,
     sections    |->
        [s \in DOMAIN mapping.sections |->
            [id        |-> mapping.sections[s].id,
             name      |-> mapping.sections[s].name,
             questions |-> [q \in DOMAIN mapping.sections[s].questions |->
                              QuestionFrom(mapping.sections[s].questions[q])]]]]

\* the structure with the page of every question set to `page`
WithPages(data, page) ==
    [data EXCEPT !.sections =
        [s \in DOMAIN @ |->
            [@[s] EXCEPT !.questions =
                [q \in DOMAIN @ |-> [@[q] EXCEPT !.page = page]]]]]

\* C13 as stated: the structure rebuilt from the written mapping equals the
\* structure of the parser and the binder in every field, the page of a
\* question included.
C13_RoundTrip ==
    json_out # None => QuizDataFrom(json_out[1]) = quiz_data

\* C13 amended: the structure rebuilt from the written mapping equals the
\* structure of the parser and the binder in every field but the page of a
\* question, which the mapping does not hold and which reads back as the
\* default 0; an image or a date that is None reads back as None.
C13_RoundTripButPage ==
    json_out # None => QuizDataFrom(json_out[1]) = WithPages(quiz_data, DefaultPage)

\* C13 witness: the written document has a question with an image, a
\* question with a date, a question without either and an option with an
\* image.
C13_Witness ==
    /\ pc = "written"
    /\ \E pos \in QuestionPositions : QuestionAt(pos).image # None
    /\ \E pos \in QuestionPositions : QuestionAt(pos).date # None
    /\ \E pos \in QuestionPositions :
          QuestionAt(pos).image = None /\ QuestionAt(pos).date = None
    /\ \E slot \in ImageSlots : slot[3] # 0

(***************************************************************************)
(* The document handle and the extraction of a page.                       *)
(***************************************************************************)
\* C14: when the first pass is over, by reaching the last page or by an
\* exception of get_text or get_images, the document handle is closed.
C14_HandleReleased ==
    pc # "extract" => ~doc_open

\* the intra-page indices of the images of page p that were extracted
ExtractedOn(p) == {k \in DOMAIN pdf[p].images : pdf[p].images[k].fail = "none"}

\* C15: for every page of the first pass, an embedded image has a
\* descriptor exactly if its extraction did not fail, the descriptor is
\* named after the page and the image's own index among all images of the
\* page, failed ones included, and the page has no other descriptor.
C15_FailedImagesAreSkipped ==
    \A p \in DOMAIN page_content :
        /\ \A k \in DOMAIN pdf[p].images :
              k \in ExtractedOn(p) <=>
                  \E d \in Range(page_content[p].images) :
                      d.filename = FileOf(<<p, k>>) /\ d.page = p
        /\ Len(page_content[p].images) = Cardinality(ExtractedOn(p))

\* C15 witness: the first image of a page failed and the second one has
\* its descriptor.
C15_Witness ==
    /\ page_content # <<>>
    /\ Len(pdf[1].images) = 2
    /\ pdf[1].images[1].fail # "none"
    /\ \E d \in Range(page_content[1].images) : d.filename = FileOf(<<1, 2>>)

(***************************************************************************)
(* The outcome of the validator.                                           *)
(***************************************************************************)
\* the file names the image fields of the document end in
Referenced == {SlotImage(slot)[3] : slot \in ImageSlots}

\* C16 as stated: the exit code is non-zero exactly if an image is missing,
\* and with no image missing and more than 5 orphans it differs from the
\* exit code of a clean run.
C16_ThreeExitOutcomes ==
    outcome # None =>
        /\ outcome[1].final.code # 0 <=> outcome[1].missing # {}
        /\ (outcome[1].missing = {} /\ Cardinality(outcome[1].orphaned) > 5) =>
              outcome[1].final.code # FinalStatus({}, {}).code

\* C16 amended: missing is what the document refers to and the directory
\* lacks, orphaned what the directory holds and the document does not refer
\* to; the exit code is 1 with status FAILED exactly if an image is
\* missing; otherwise the exit code is 0, with status WARNING if there are
\* more than 5 orphans and OK if not: only the status line tells a warning
\* from a clean run.
C16_StatusAndExitCode ==
    outcome # None =>
        /\ outcome[1].missing = {<<name>> : name \in Referenced \ DOMAIN disk}
        /\ outcome[1].orphaned = {<<name>> : name \in DOMAIN disk \ Referenced}
        /\ outcome[1].final =
              IF outcome[1].missing # {} THEN [status |-> "FAILED", code |-> 1]
              ELSE IF Cardinality(outcome[1].orphaned) > 5
                   THEN [status |-> "WARNING", code |-> 0]
                   ELSE [status |-> "OK", code |-> 0]

\* C16 witness: the validator ended with no missing image and six orphans.
C16_Witness ==
    /\ outcome # None
    /\ outcome[1].missing = {}
    /\ Referenced # {}
    /\ Cardinality(outcome[1].orphaned) = 6

(***************************************************************************)
(* The cursor of the line scan.                                            *)
(***************************************************************************)
\* C17: while lines are left, a step of the scan moves the cursor forward
\* by at least one and not beyond the end, and leaves the lines alone; it
\* moves by more than one only at a question start or an option line, over
\* lines that do not stop the continuation, up to the first line that
\* does.  With no line left the scan ends.  Every index is thus consumed by
\* exactly one step, and the scan ends after at most as many steps as
\* there are lines.
C17_CursorAdvances ==
    [][pc = "scan" =>
          IF i < NumLines
          THEN /\ i < i' /\ i' <= NumLines
               /\ pc' = "scan"
               /\ lines_with_pages' = lines_with_pages
               /\ i' > i + 1 => AtLine("question") \/ AtLine("option")
               /\ \A j \in (i + 1)..(i' - 1) : ~QuestionTextStops(LineAt(j))
               /\ (AtLine("question") \/ AtLine("option")) /\ i' < NumLines =>
                     QuestionTextStops(LineAt(i'))
          ELSE pc' # "scan"]_vars

\* C17 witness: the scan is over and a line after a question start was
\* consumed as continuation of the question text.
C17_Witness ==
    /\ pc = "group"
    /\ i = NumLines
    /\ \E k \in 1..(NumLines - 1) : LineAt(k - 1) = LQuestion1 /\ LineAt(k) = LText

\* C18: a question start or an option line takes no following line into
\* its text that the scan, with a question open, would classify as a
\* question start, an option, a date annotation or an answer key.
C18_NoClassifiedLineAbsorbed ==
    [][(AtLine("question") \/ AtLine("option")) =>
          \A j \in (i + 1)..(i' - 1) :
              Kind(LineAt(j), TRUE) \notin {"question", "option", "date", "answers"}]_vars

\* C19: a numbered line that the question heuristic rejects moves the
\* cursor by one and leaves the current section, the current question and
\* the pending answers as they are.
C19_RejectedLineIsSkipped ==
    [][AtLine("rejected") =>
          /\ i' = i + 1
          /\ UNCHANGED <<current_section, current_question, current_answers>>]_vars

(***************************************************************************)
(* The page of the option images.                                          *)
(***************************************************************************)
\* C20: after the binder, every image of an option is an extracted image
\* of the page of its question.
C20_OptionImagesFromOwnPage ==
    pc = "done" =>
        \A slot \in {t \in ImageSlots : t[3] # 0} :
            \E d \in Range(all_images) :
                /\ SlotImage(slot) = ImagePath(ImagesDirName, d.filename)
                /\ d.page = QuestionAt(<<slot[1], slot[2]>>).page

(***************************************************************************)
(* The order of the images of a page.                                      *)
(***************************************************************************)
\* the multiple of 100 nearest to y; in the middle between two of them,
\* the one that is an even multiple
Band(y) ==
    CHOOSE m \in {100 * n : n \in 0..((y \div 100) + 1)} :
        \/ 2 * y - 100 < 2 * m /\ 2 * m < 2 * y + 100
        \/ (2 * m = 2 * y - 100 \/ 2 * m = 2 * y + 100) /\ (m \div 100) % 2 = 0

TopEdge(d) == IF d.rect # None THEN d.rect[1].y0 ELSE 0

LeftEdge(d) == IF d.rect # None THEN d.rect[1].x0 ELSE 0

\* the place of a descriptor in the extraction order
PlaceOf(d) == CHOOSE k \in DOMAIN all_images : all_images[k] = d

BinderList(page) ==
    IF page \in DOMAIN images_by_page THEN images_by_page[page] ELSE <<>>

\* C21: once the images are grouped, the list of every page holds exactly
\* the surviving descriptors of the page, each once, in ascending order of
\* the band of the top edge (the nearest multiple of 100, the even one for
\* a top edge in the middle), then of the left edge; descriptors equal on
\* both are in extraction order; a descriptor without rectangle counts as
\* top edge 0 and left edge 0.
C21_ReadingOrder ==
    pc \in {"assign", "done", "written", "validated"} =>
        \A page \in DOMAIN pdf :
            LET list == BinderList(page)
            IN  /\ Range(list) = {d \in Range(all_images) : d.page = page}
                /\ \A a, b \in DOMAIN list : a # b => list[a] # list[b]
                /\ \A a, b \in DOMAIN list :
                      a < b =>
                          \/ Band(TopEdge(list[a])) < Band(TopEdge(list[b]))
                          \/ /\ Band(TopEdge(list[a])) = Band(TopEdge(list[b]))
                             /\ LeftEdge(list[a]) < LeftEdge(list[b])
                          \/ /\ Band(TopEdge(list[a])) = Band(TopEdge(list[b]))
                             /\ LeftEdge(list[a]) = LeftEdge(list[b])
                             /\ PlaceOf(list[a]) < PlaceOf(list[b])

\* C21 witness: a page has three images that are not in extraction order,
\* one with its top edge in the middle between two bands, one without
\* rectangle and two that are equal on both keys.
C21_Witness ==
    /\ pc = "assign"
    /\ Len(BinderList(1)) = 3
    /\ BinderList(1) # OnPage(all_images, 1)
    /\ \E d \in Range(BinderList(1)) : TopEdge(d) % 100 = 50
    /\ \E d \in Range(BinderList(1)) : d.rect = None
    /\ \E a, b \in DOMAIN BinderList(1) :
          /\ a # b
          /\ TopEdge(BinderList(1)[a]) = TopEdge(BinderList(1)[b])
          /\ LeftEdge(BinderList(1)[a]) = LeftEdge(BinderList(1)[b])

(***************************************************************************)
(* C22.  Questions are objects: the element of a section's list and        *)
(* current_question can be the same object, and a line that adds an option *)
(* or a date to current_question would then change the listed question.    *)
(* history names the objects: open is the one current_question refers to,  *)
(* started the ones in the lists.  Slot <<0, k>> is the k-th question of    *)
(* the section being built, slot <<s, k>> the k-th question of section s   *)
(* of quiz_data.                                                           *)
(***************************************************************************)
BuiltSections == IF pc = "scan" THEN {0} ELSE {}

HistOf(s) == IF s = 0 THEN history.cur ELSE history.doc[s]

ListOf(s) ==
    IF s = 0
    THEN (IF current_section = None THEN <<>> ELSE current_section[1].questions)
    ELSE quiz_data.sections[s].questions

CommittedSlots ==
    UNION {{<<s, k>> : k \in 1 .. Len(ListOf(s))} :
              s \in BuiltSections \cup (1 .. Len(quiz_data.sections))}

StartOf(slot) == HistOf(slot[1]).started[slot[2]]

\* C22: while the lines are scanned, an open question has a section to go
\* to and is not yet in any section's list; no question is in the lists
\* twice; and, to the end of the scan, every listed question has exactly the
\* options and the date it had when it was appended.
C22_OpenQuestionIsUncommitted ==
    pc \in {"scan", "group"} =>
        /\ Len(history.doc) = Len(quiz_data.sections)
        /\ \A s \in BuiltSections \cup (1 .. Len(quiz_data.sections)) :
              /\ Len(HistOf(s).started) = Len(ListOf(s))
              /\ Len(HistOf(s).frozen) = Len(ListOf(s))
        /\ (pc = "scan" /\ current_question # None) =>
              /\ current_section # None
              /\ \A slot \in CommittedSlots : StartOf(slot) # history.open
        /\ \A a, b \in CommittedSlots : a # b => StartOf(a) # StartOf(b)
        /\ \A slot \in CommittedSlots :
              /\ ListOf(slot[1])[slot[2]].options =
                     HistOf(slot[1]).frozen[slot[2]].options
              /\ ListOf(slot[1])[slot[2]].date =
                     HistOf(slot[1]).frozen[slot[2]].date

\* a question is open whose number, text, options and date are those of a
\* question already in the section's list, with a section already saved
C22_Witness ==
    /\ pc = "scan"
    /\ current_question # None
    /\ current_question[1].options # <<>>
    /\ \E slot \in CommittedSlots :
          /\ ListOf(slot[1])[slot[2]].id = current_question[1].id
          /\ ListOf(slot[1])[slot[2]].options = current_question[1].options
          /\ StartOf(slot) < history.open

====
